---- MODULE Spec2Model ----
(***************************************************************************)
(* Model of the vidstack player's media control core:                      *)
(*   - the media request manager   (createMediaRequestManager),            *)
(*   - the source selector         (useSourceSelection),                   *)
(*   - the video provider loader   (VideoProviderLoader.canPlay),          *)
(*   - the HLS lifecycle manager   (useHLS).                                *)
(*                                                                         *)
(* Times are counted in tenths of a second (0.1 s = 1, 2 s = 20) and       *)
(* volumes in hundredths (0.25 = 25).  JavaScript numbers that may be      *)
(* NaN, +-Infinity or undefined are tagged records (see Fin, NaN, ...).    *)
(***************************************************************************)
EXTENDS Integers, Sequences, FiniteSets, Bags, TLC

VARIABLES
  provider,     \* $provider() is not null
  store,        \* $media / $store: the media store
  prov,         \* the provider's own settable fields (muted, volume, currentTime)
  queue,        \* requests._queue: category -> causing event type, or "none"
  flags,        \* requests._$isSeeking / _$isLooping / _$isReplay
  out,          \* what the last handler run did: calls, error, events handed on
  fs,           \* fullscreen surfaces, orientation adapter and the runs in flight
  sel,          \* source selector: props, normalized sources, committed source/loader
  hls           \* HLS lifecycle manager: constructor, instances, published reference

vars == <<provider, store, prov, queue, flags, out, fs, sel, hls>>

(***************************************************************************)
(* JavaScript numbers.                                                     *)
(***************************************************************************)
Fin(n) == [k |-> "fin", v |-> n]
PosInf == [k |-> "inf", v |-> 1]
NegInf == [k |-> "inf", v |-> -1]
NaN == [k |-> "nan", v |-> 0]
Undefined == [k |-> "undef", v |-> 0]

\* Number.isFinite
IsFinite(a) == a.k = "fin"

\* a < b on non-NaN numbers
NumLess(a, b) ==
  CASE a.k = "fin" /\ b.k = "fin" -> a.v < b.v
    [] a.k = "inf" /\ b.k = "fin" -> a.v < 0
    [] a.k = "fin" /\ b.k = "inf" -> b.v > 0
    [] OTHER -> a.v < b.v

\* Math.max / Math.min: NaN if either argument is NaN
MathMax(a, b) ==
  IF a.k = "nan" \/ b.k = "nan" THEN NaN ELSE IF NumLess(a, b) THEN b ELSE a

MathMin(a, b) ==
  IF a.k = "nan" \/ b.k = "nan" THEN NaN ELSE IF NumLess(b, a) THEN b ELSE a

\* a + n for a finite offset n (in tenths)
NumAdd(a, n) == IF a.k = "fin" THEN Fin(a.v + n) ELSE a

\* Math.abs(a - b) >= n, for finite b
AbsDiffAtLeast(a, b, n) ==
  CASE a.k = "nan" -> FALSE
    [] a.k = "inf" -> TRUE
    [] OTHER -> (IF a.v >= b.v THEN a.v - b.v ELSE b.v - a.v) >= n

(***************************************************************************)
(* Request queue (foundation/queue): keyed, last write wins.               *)
(***************************************************************************)
QueueKeys ==
  {"load", "play", "pause", "volume", "fullscreen", "seeked", "seeking", "userIdle"}

EmptyQueue == [key \in QueueKeys |-> "none"]

enqueue(q, key, event) == [q EXCEPT ![key] = event]

delete(q, key) == [q EXCEPT ![key] = "none"]

(***************************************************************************)
(* The record of one handler run.                                          *)
(*   op      the handler or manager method that ran                        *)
(*   ran     FALSE when the request listener dropped the event (no         *)
(*           provider attached)                                            *)
(*   arg     the number the request carried as event.detail, if any        *)
(*   detail  the string the request or engine event carried, if any        *)
(*   flag    the boolean the engine event carried (data.fatal), if any     *)
(*   calls   the provider (or engine) members called or written, in order  *)
(*   enq     the queue categories enqueued, in order                       *)
(*   raised  the error raised inside the run, "none" if none               *)
(*   thrown  whether that error left the function (a rejected promise for  *)
(*           an async function)                                            *)
(*   events  the events handed to the state manager, in order              *)
(***************************************************************************)
Ran(name) ==
  [op |-> name, ran |-> TRUE, arg |-> Undefined, detail |-> "", flag |-> FALSE,
   calls |-> <<>>, enq |-> <<>>, raised |-> "none", thrown |-> FALSE,
   events |-> <<>>]

\* an event handed to the state manager (handler.handle, delegate.dispatch)
Event(type, detail) == [type |-> type, detail |-> detail, autoplay |-> "unset"]

\* a play-fail event; autoplay is "unset" when the handler never assigns it
PlayFail(autoplay) == [type |-> "play-fail", detail |-> "error", autoplay |-> autoplay]

Dropped(name) == [Ran(name) EXCEPT !.ran = FALSE]

\* the request listener: the handler runs only if a provider is attached
listenerDrops(name) ==
  /\ ~provider
  /\ out' = Dropped(name)
  /\ UNCHANGED <<provider, store, prov, queue, flags, fs, sel, hls>>

(***************************************************************************)
(* Bounds and input sets.                                                  *)
(***************************************************************************)
\* largest time (tenths of a second) of the short seekable ranges tried
MaxTime == 3

\* volumes (hundredths) a volume-change request may carry
Volumes == {0, 25, 50}

(***************************************************************************)
(* Media request manager: guards.                                          *)
(***************************************************************************)
\* the volume restored by unmute when the volume was exactly zero (0.25)
UnmuteFloorVolume == 25

\* 0.1 s, the margin kept from both ends of the seekable range
SeekMargin == 1

\* 2 s, the distance from the live edge (and the fallback behind it)
LiveEdgeTolerance == 20

\* the end of a seekable range long enough to be 2 s and more behind its end
FarEnd == LiveEdgeTolerance + MaxTime + SeekMargin

\* times a seek request may carry as event.detail
SeekTimes ==
  {Fin(t) : t \in (-1..MaxTime) \cup {FarEnd - SeekMargin, FarEnd + 1}}
    \cup {NaN, PosInf, NegInf}

\* seekable ranges the store may report: finite start, finite or unbounded end
SeekableStarts == {Fin(t) : t \in 0..1}

SeekableEnds == {Fin(t) : t \in (0..MaxTime) \cup {FarEnd}} \cup {PosInf}

\* live-sync positions the store may hold
LiveSyncPositions == {Undefined, Fin(FarEnd - LiveEdgeTolerance + 1), PosInf}

\* TRUE when throwIfNotReadyForPlayback throws
notReadyMutant(p, canPlay) == ~p

throwIfNotReadyForPlayback(p, canPlay) == ~(p /\ canPlay)

\* the clamp of onSeekRequest
boundTimeMutant(seekableStart, detail, seekableEnd) ==
  MathMax(NumAdd(seekableStart, SeekMargin),
          MathMin(detail, NumAdd(seekableEnd, -SeekMargin)))

boundTime(seekableStart, detail, seekableEnd) ==
  MathMin(MathMax(NumAdd(seekableStart, SeekMargin), detail),
          NumAdd(seekableEnd, -SeekMargin))

\* the early return of onSeekRequest
seekIgnoredMutant(t, canSeek) == ~canSeek

seekIgnored(t, canSeek) == ~IsFinite(t) \/ ~canSeek

\* the early return of onSeekToLiveEdgeRequest and seekToLiveEdge
liveEdgeNoopMutant(s) == ~s.live \/ ~s.canSeek

liveEdgeNoop(s) == ~s.live \/ s.liveEdge \/ ~s.canSeek

(***************************************************************************)
(* Media request manager: request handlers.  Each is reached through the   *)
(* request listener, which runs it only while a provider is attached.      *)
(***************************************************************************)
onMuteRequest ==
  /\ provider
  /\ IF store.muted
       THEN /\ out' = Ran("media-mute-request")
            /\ UNCHANGED <<prov, queue>>
       ELSE /\ queue' = enqueue(queue, "volume", "media-mute-request")
            /\ prov' = [prov EXCEPT !.muted = TRUE]
            /\ out' = [Ran("media-mute-request") EXCEPT
                         !.enq = <<"volume">>, !.calls = <<"muted=">>]
  /\ UNCHANGED <<provider, store, flags, fs, sel, hls>>

unmuteVolumeMutant(volume, current) == current

unmuteVolume(volume, current) ==
  IF volume = 0 THEN UnmuteFloorVolume ELSE current

onUnmuteRequest ==
  /\ provider
  /\ IF ~store.muted
       THEN /\ out' = Ran("media-unmute-request")
            /\ UNCHANGED <<prov, queue>>
       ELSE /\ queue' = enqueue(queue, "volume", "media-unmute-request")
            /\ prov' = [prov EXCEPT !.muted = FALSE,
                                    !.volume = unmuteVolume(store.volume, @)]
            /\ out' = [Ran("media-unmute-request") EXCEPT
                         !.enq = IF store.volume = 0
                                   THEN <<"volume", "volume">> ELSE <<"volume">>,
                         !.calls = IF store.volume = 0
                                     THEN <<"muted=", "volume=">> ELSE <<"muted=">>]
  /\ UNCHANGED <<provider, store, flags, fs, sel, hls>>

onVolumeChangeRequest(volume) ==
  /\ provider
  /\ IF store.volume = volume
       THEN /\ out' = [Ran("media-volume-change-request") EXCEPT !.arg = Fin(volume)]
            /\ UNCHANGED <<prov, queue>>
       ELSE /\ queue' = enqueue(queue, "volume", "media-volume-change-request")
            /\ prov' = [prov EXCEPT !.volume = volume,
                                    !.muted = IF volume > 0 /\ store.muted
                                                THEN FALSE ELSE @]
            /\ out' = [Ran("media-volume-change-request") EXCEPT
                         !.arg = Fin(volume),
                         !.enq = IF volume > 0 /\ store.muted
                                   THEN <<"volume", "volume">> ELSE <<"volume">>,
                         !.calls = IF volume > 0 /\ store.muted
                                     THEN <<"volume=", "muted=">> ELSE <<"volume=">>]
  /\ UNCHANGED <<provider, store, flags, fs, sel, hls>>

\* provider.play() settles as the provider decides: rejected is TRUE when it rejects
onPlayRequest(rejected) ==
  /\ provider
  /\ IF ~store.paused
       THEN /\ out' = Ran("media-play-request")
            /\ UNCHANGED queue
       ELSE /\ queue' = enqueue(queue, "play", "media-play-request")
            /\ out' = [Ran("media-play-request") EXCEPT
                         !.enq = <<"play">>,
                         !.calls = <<"play()">>,
                         !.raised = IF rejected THEN "rejected" ELSE "none",
                         !.events = IF rejected
                                      THEN <<PlayFail("unset")>>
                                      ELSE <<>>]
  /\ UNCHANGED <<provider, store, prov, flags, fs, sel, hls>>

\* what the catch block of onPauseRequest leaves of the queue
pauseFailedMutant(q) == q

pauseFailed(q) == delete(q, "pause")

onPauseRequest(rejected) ==
  /\ provider
  /\ IF store.paused
       THEN /\ out' = Ran("media-pause-request")
            /\ UNCHANGED queue
       ELSE /\ queue' = IF rejected
                          THEN pauseFailed(enqueue(queue, "pause", "media-pause-request"))
                          ELSE enqueue(queue, "pause", "media-pause-request")
            /\ out' = [Ran("media-pause-request") EXCEPT
                         !.enq = <<"pause">>,
                         !.calls = <<"pause()">>,
                         !.raised = IF rejected THEN "rejected" ELSE "none"]
  /\ UNCHANGED <<provider, store, prov, flags, fs, sel, hls>>

onSeekingRequest ==
  /\ provider
  /\ queue' = enqueue(queue, "seeking", "media-seeking-request")
  /\ store' = [store EXCEPT !.seeking = TRUE]
  /\ flags' = [flags EXCEPT !.isSeeking = TRUE]
  /\ out' = [Ran("media-seeking-request") EXCEPT !.enq = <<"seeking">>]
  /\ UNCHANGED <<provider, prov, fs, sel, hls>>

onSeekRequest(detail, isOriginTrusted) ==
  LET t == boundTime(store.seekableStart, detail, store.seekableEnd)
      q == delete(queue, "seeking")
  IN
  /\ provider
  /\ flags' = [flags EXCEPT !.isReplay = IF store.ended THEN TRUE ELSE @,
                            !.isSeeking = FALSE]
  /\ IF seekIgnored(t, store.canSeek)
       THEN /\ queue' = q
            /\ out' = [Ran("media-seek-request") EXCEPT !.arg = detail]
            /\ UNCHANGED <<prov, store>>
       ELSE /\ queue' = enqueue(q, "seeked", "media-seek-request")
            /\ prov' = [prov EXCEPT !.currentTime = t]
            /\ store' = [store EXCEPT !.userBehindLiveEdge =
                           IF /\ store.live
                              /\ isOriginTrusted
                              /\ AbsDiffAtLeast(store.seekableEnd, t, LiveEdgeTolerance)
                             THEN TRUE ELSE @]
            /\ out' = [Ran("media-seek-request") EXCEPT
                         !.arg = detail,
                         !.enq = <<"seeked">>, !.calls = <<"currentTime=">>]
  /\ UNCHANGED <<provider, fs, sel, hls>>

\* the position seekToLiveEdge writes: liveSyncPosition ?? seekableEnd - 2
liveEdgeTarget(s) ==
  IF s.liveSyncPosition = Undefined
    THEN NumAdd(s.seekableEnd, -LiveEdgeTolerance)
    ELSE s.liveSyncPosition

\* the body of the manager's seekToLiveEdge(), as a result record:
\* the store and provider fields after it, the calls made, the error raised
seekToLiveEdgeBody(s, pr) ==
  LET s1 == [s EXCEPT !.userBehindLiveEdge = FALSE] IN
  IF liveEdgeNoop(s1)
    THEN [store |-> s1, prov |-> pr, calls |-> <<>>, raised |-> "none"]
    ELSE IF throwIfNotReadyForPlayback(provider, s1.canPlay)
      THEN [store |-> s1, prov |-> pr, calls |-> <<>>, raised |-> "not-ready"]
      ELSE [store |-> s1, prov |-> [pr EXCEPT !.currentTime = liveEdgeTarget(s1)],
            calls |-> <<"currentTime=">>, raised |-> "none"]

onSeekToLiveEdgeRequest ==
  /\ provider
  /\ IF liveEdgeNoop(store)
       THEN /\ out' = Ran("media-live-edge-request")
            /\ UNCHANGED <<store, prov, queue>>
       ELSE LET r == seekToLiveEdgeBody(store, prov) IN
            /\ queue' = enqueue(queue, "seeked", "media-live-edge-request")
            /\ store' = r.store
            /\ prov' = r.prov
            /\ out' = [Ran("media-live-edge-request") EXCEPT
                         !.enq = <<"seeked">>, !.calls = r.calls, !.raised = r.raised]
  /\ UNCHANGED <<provider, flags, fs, sel, hls>>

(***************************************************************************)
(* Media request manager: the methods it returns (_play, _pause,           *)
(* _seekToLiveEdge), called by the player whether or not a provider is     *)
(* attached.                                                               *)
(***************************************************************************)
seekToLiveEdge ==
  LET r == seekToLiveEdgeBody(store, prov) IN
  /\ store' = r.store
  /\ prov' = r.prov
  /\ out' = [Ran("seekToLiveEdge") EXCEPT
               !.calls = r.calls, !.raised = r.raised,
               !.thrown = (r.raised # "none")]
  /\ UNCHANGED <<provider, queue, flags, fs, sel, hls>>

\* play(): `return provider.play()` is not awaited, so a rejection of the
\* provider's promise passes the try block by and rejects play() itself.
\* What one call of play() does: the provider members it calls, the error it
\* ends with, the events it hands to the state manager, the provider after it
playOutcome(rejected) ==
  IF ~store.paused
    THEN [calls |-> <<>>, raised |-> "none", events |-> <<>>, prov |-> prov]
  ELSE IF throwIfNotReadyForPlayback(provider, store.canPlay)
    THEN [calls |-> <<>>, raised |-> "not-ready",
          events |-> <<PlayFail(IF store.attemptingAutoplay THEN "true" ELSE "false")>>,
          prov |-> prov]
  ELSE [calls |-> IF store.ended THEN <<"currentTime=", "play()">> ELSE <<"play()">>,
        raised |-> IF rejected THEN "rejected" ELSE "none",
        events |-> <<>>,
        prov |-> [prov EXCEPT !.currentTime =
                    IF store.ended THEN NumAdd(store.seekableStart, SeekMargin) ELSE @]]

play(rejected) ==
  LET r == playOutcome(rejected) IN
  /\ prov' = r.prov
  /\ out' = [Ran("play") EXCEPT
               !.calls = r.calls, !.raised = r.raised,
               !.thrown = (r.raised # "none"), !.events = r.events]
  /\ UNCHANGED <<provider, store, queue, flags, fs, sel, hls>>

\* loop callbacks waiting for their animation frame at the same time
MaxFrames == 2

\* onLoopRequest: the replay is put off to the next animation frame
onLoopRequest ==
  /\ provider
  /\ flags.frames < MaxFrames
  /\ flags' = [flags EXCEPT !.frames = @ + 1]
  /\ out' = [Ran("media-loop-request") EXCEPT !.calls = <<"requestAnimationFrame">>]
  /\ UNCHANGED <<provider, store, prov, queue, fs, sel, hls>>

\* the catch block of the loop callback
loopFailed(f) == [f EXCEPT !.isLooping = FALSE, !.isReplay = FALSE]

\* the callback onLoopRequest scheduled: it sets the flags, awaits play() and
\* takes the flags back if play() throws or rejects
loopFrame(rejected) ==
  LET r == playOutcome(rejected)
      set == [flags EXCEPT !.frames = @ - 1, !.isLooping = TRUE, !.isReplay = TRUE]
  IN
  /\ flags.frames > 0
  /\ flags' = IF r.raised # "none" THEN loopFailed(set) ELSE set
  /\ prov' = r.prov
  /\ out' = [Ran("loop-frame") EXCEPT
               !.calls = r.calls, !.raised = r.raised, !.events = r.events]
  /\ UNCHANGED <<provider, store, queue, fs, sel, hls>>

pauseUnguarded(rejected) ==
  /\ IF store.paused
       THEN out' = Ran("pause")
       ELSE out' = [Ran("pause") EXCEPT
                      !.calls = <<"pause()">>,
                      !.raised = IF rejected THEN "rejected" ELSE "none",
                      !.thrown = rejected]
  /\ UNCHANGED <<provider, store, prov, queue, flags, fs, sel, hls>>

pause(rejected) ==
  /\ IF store.paused
       THEN out' = Ran("pause")
       ELSE IF throwIfNotReadyForPlayback(provider, store.canPlay)
         THEN out' = [Ran("pause") EXCEPT !.raised = "not-ready", !.thrown = TRUE]
         ELSE out' = [Ran("pause") EXCEPT
                        !.calls = <<"pause()">>,
                        !.raised = IF rejected THEN "rejected" ELSE "none",
                        !.thrown = rejected]
  /\ UNCHANGED <<provider, store, prov, queue, flags, fs, sel, hls>>

(***************************************************************************)
(* The provider setup and load effects of useSourceSelection.  sel.setup   *)
(* tells whether the attached provider has been set up, sel.loaded is the  *)
(* source last handed to its loadSource (NoLoad when none was).  The setup *)
(* effect was created first and runs first when both are due.              *)
(***************************************************************************)
NoLoad == [src |-> "none", type |-> "none"]

\* a source's src is a URL string or a non-string handle (a MediaStream, say)
StreamHandle == "<MediaStream>"

SrcStrings == {"", "a.mp4", "b.m3u8", "c.mp3", "d.txt", "blob:x"}

isString(src) == src \in SrcStrings

startsWithBlob(src) == src = "blob:x"

\* new URL(src) succeeds for an absolute URL only
isAbsoluteURL(src) == startsWithBlob(src)

\* the provider setup effect: what it calls on the provider p
setupEffectMutant(p, canLoad) == IF p THEN <<"setup">> ELSE <<>>

setupEffect(p, canLoad) ==
  IF ~p THEN <<>>
  ELSE IF canLoad THEN <<"setup">>
  ELSE <<"provider.preconnect">>

\* the load effect: what it calls for the committed source
loadEffect(p, canLoad, source) ==
  IF canLoad THEN (IF p THEN <<"loadSource">> ELSE <<>>)
  ELSE IF isString(source.src) /\ isAbsoluteURL(source.src)
    THEN <<"preconnect">>
  ELSE <<>>

\* the calls of the effects that are due (e1: the setup effect, e2: the load
\* effect), in the order they run
loadCalls(e1, e2, p, canLoad, source) ==
  (IF e1 THEN setupEffect(p, canLoad) ELSE <<>>)
    \o (IF e2 THEN loadEffect(p, canLoad, source) ELSE <<>>)

Called(calls, name) == \E i \in 1..Len(calls) : calls[i] = name

\* sel after those calls; providerChanged: $provider was set or cleared
afterLoad(s, calls, providerChanged, source) ==
  [s EXCEPT !.setup = Called(calls, "setup") \/ (~providerChanged /\ @),
            !.loaded = IF Called(calls, "loadSource") THEN source
                       ELSE IF providerChanged THEN NoLoad
                       ELSE @]

(***************************************************************************)
(* The live-edge effect of useHLS: while the stream is live and an engine  *)
(* instance is published, an animation-frame loop samples that instance.   *)
(* h.loop is the instance the running loop closes over, 0 when no loop is  *)
(* running.  The effect runs again when a signal its last run read has     *)
(* changed: it reads $store.live, and $instance only when live was true.   *)
(***************************************************************************)
\* whether a run of the effect that saw this live flag went on to read $instance
readsInstanceMutant(live) == FALSE

readsInstance(live) == live

\* one run of the effect: the cleanup of the last run stops its loop, then a
\* new loop starts if the stream is live and an instance is published
liveEdgeRun(h, live) ==
  [h EXCEPT !.loop = IF live /\ h.instance # 0 THEN h.instance ELSE 0]

\* the effect after a handler took the lifecycle state from h0 to h1 and the
\* live flag from live0 to live1; a disposed scope stops the loop for good
liveEdgeEffect(h0, live0, h1, live1) ==
  IF h1.disposed THEN [h1 EXCEPT !.loop = 0]
  ELSE IF live0 # live1 \/ (readsInstance(live0) /\ h0.instance # h1.instance)
    THEN liveEdgeRun(h1, live1)
  ELSE h1

(***************************************************************************)
(* The manager's surroundings: the provider signal and the store fields    *)
(* the state manager keeps in step with the provider's media events.       *)
(***************************************************************************)
Env(name) == [Ran(name) EXCEPT !.ran = FALSE]

\* $provider is set (a provider connected) or cleared
providerChange ==
  LET calls == loadCalls(TRUE, TRUE, ~provider, store.canLoad, sel.source) IN
  /\ provider' = ~provider
  /\ sel' = afterLoad(sel, calls, TRUE, sel.source)
  /\ out' = [Env("provider-change") EXCEPT !.calls = calls]
  /\ UNCHANGED <<store, prov, queue, flags, fs, hls>>

\* loading is permitted by something other than a start-loading request
canLoadSet ==
  LET calls == loadCalls(provider, TRUE, provider, TRUE, sel.source) IN
  /\ ~store.canLoad
  /\ store' = [store EXCEPT !.canLoad = TRUE]
  /\ sel' = afterLoad(sel, calls, FALSE, sel.source)
  /\ out' = [Env("can-load") EXCEPT !.calls = calls]
  /\ UNCHANGED <<provider, prov, queue, flags, fs, hls>>

\* onStartLoading: the state manager sets canLoad on 'can-load', and the setup
\* and load effects, which read it, run
onStartLoading ==
  LET calls == loadCalls(TRUE, TRUE, TRUE, TRUE, sel.source) IN
  /\ provider
  /\ IF store.canLoad
       THEN /\ out' = Ran("media-start-loading")
            /\ UNCHANGED <<store, queue, sel>>
       ELSE /\ queue' = enqueue(queue, "load", "media-start-loading")
            /\ store' = [store EXCEPT !.canLoad = TRUE]
            /\ sel' = afterLoad(sel, calls, FALSE, sel.source)
            /\ out' = [Ran("media-start-loading") EXCEPT
                         !.enq = <<"load">>,
                         !.events = <<Event("can-load", "")>>,
                         !.calls = calls]
  /\ UNCHANGED <<provider, prov, flags, fs, hls>>

\* can-play is reached; a new source takes it back
canPlayChange ==
  /\ store' = [store EXCEPT !.canPlay = ~@]
  /\ out' = Env("can-play")
  /\ UNCHANGED <<provider, prov, queue, flags, fs, sel, hls>>

\* volumechange: the store takes over the provider's muted and volume
volumeChange ==
  /\ provider
  /\ store.muted # prov.muted \/ store.volume # prov.volume
  /\ store' = [store EXCEPT !.muted = prov.muted, !.volume = prov.volume]
  /\ out' = Env("volume-change")
  /\ UNCHANGED <<provider, prov, queue, flags, fs, sel, hls>>

\* play / pause / ended media events
pausedChange ==
  /\ store' = [store EXCEPT !.paused = ~@]
  /\ out' = Env("paused-change")
  /\ UNCHANGED <<provider, prov, queue, flags, fs, sel, hls>>

endedChange ==
  /\ store' = [store EXCEPT !.ended = ~@]
  /\ out' = Env("ended-change")
  /\ UNCHANGED <<provider, prov, queue, flags, fs, sel, hls>>

attemptingAutoplayChange ==
  /\ store' = [store EXCEPT !.attemptingAutoplay = ~@]
  /\ out' = Env("autoplay-change")
  /\ UNCHANGED <<provider, prov, queue, flags, fs, sel, hls>>

\* the seekable range, the live flags and the live-sync position change
seekableChange(start, end) ==
  /\ store' = [store EXCEPT !.seekableStart = start, !.seekableEnd = end]
  /\ out' = Env("seekable-change")
  /\ UNCHANGED <<provider, prov, queue, flags, fs, sel, hls>>

canSeekChange ==
  /\ store' = [store EXCEPT !.canSeek = ~@]
  /\ out' = Env("can-seek-change")
  /\ UNCHANGED <<provider, prov, queue, flags, fs, sel, hls>>

liveChange ==
  /\ store' = [store EXCEPT !.live = ~@]
  /\ hls' = liveEdgeEffect(hls, store.live, hls, ~store.live)
  /\ out' = Env("live-change")
  /\ UNCHANGED <<provider, prov, queue, flags, fs, sel>>

liveEdgeChange ==
  /\ store' = [store EXCEPT !.liveEdge = ~@]
  /\ out' = Env("live-edge-change")
  /\ UNCHANGED <<provider, prov, queue, flags, fs, sel, hls>>

liveSyncPositionChange(pos) ==
  /\ store' = [store EXCEPT !.liveSyncPosition = pos]
  /\ out' = Env("live-sync-position-change")
  /\ UNCHANGED <<provider, prov, queue, flags, fs, sel, hls>>

\* timeupdate: the store takes over the provider's currentTime
timeUpdate ==
  /\ provider
  /\ store.currentTime # prov.currentTime
  /\ store' = [store EXCEPT !.currentTime = prov.currentTime]
  /\ out' = Env("time-update")
  /\ UNCHANGED <<provider, prov, queue, flags, fs, sel, hls>>

(***************************************************************************)
(* Fullscreen.  fs holds the player-level fullscreen adapter (supported,   *)
(* active), the provider's own fullscreen capability (provSupported,       *)
(* provActive), the screen orientation adapter (orientSupported, locked),  *)
(* the $fullscreenOrientation prop (lockType, "undefined" when not set)    *)
(* and the enter/exit runs suspended at an await.  A run's hist lists what *)
(* it called and how each awaited call settled, in order.  history and     *)
(* exited are history variables: they record the order in which requests   *)
(* were issued and no handler reads them.                                  *)
(***************************************************************************)
\* enter/exit runs suspended at the same time
MaxRuns == 2

FullscreenTargets == {"prefer-media", "media", "provider"}

\* the surface enterFullscreen / exitFullscreen pick for a target
fullscreenSurfaceMutant(target) ==
  IF target = "provider" THEN "provider" ELSE "media"

fullscreenSurface(target) ==
  IF (target = "prefer-media" /\ fs.supported) \/ target = "media"
    THEN "media" ELSE "provider"

\* TRUE when throwIfFullscreenNotSupported throws for the surface
throwIfFullscreenNotSupported(surface) ==
  IF surface = "media" THEN ~fs.supported
                       ELSE ~(provider /\ fs.provSupported)

surfaceActive(f, surface) == IF surface = "media" THEN f.active ELSE f.provActive

setSurfaceActive(f, surface, b) ==
  IF surface = "media" THEN [f EXCEPT !.active = b] ELSE [f EXCEPT !.provActive = b]

requestName(op) ==
  IF op = "enterFullscreen" THEN "media-enter-fullscreen-request"
                            ELSE "media-exit-fullscreen-request"

\* the record of a run that ended, through the request handler or as a
\* direct call of the manager's method
finished(op, via, hist, raised) ==
  IF via = "request"
    THEN [Ran(requestName(op)) EXCEPT
            !.calls = hist, !.enq = <<"fullscreen">>, !.raised = raised,
            !.events = IF raised = "none" THEN <<>>
                       ELSE <<Event("fullscreen-error", raised)>>]
    ELSE [Ran(op) EXCEPT
            !.calls = hist, !.raised = raised, !.thrown = (raised # "none")]

\* the record left while a run is suspended at an await
suspended(op, via, hist) ==
  [Ran(IF via = "request" THEN requestName(op) ELSE op) EXCEPT
     !.detail = "pending", !.calls = hist,
     !.enq = IF via = "request" THEN <<"fullscreen">> ELSE <<>>]

\* the record of the step that started a run: arg is the target the request
\* carried as event.detail, or the method was called with
started(target, record) == [record EXCEPT !.arg = [k |-> "target", v |-> target]]

\* the runs in flight are a bag: runs are told apart by what they have done,
\* not by the order they started in
addRun(runs, r) == runs (+) SetToBag({r})

\* History of the order of requests, kept when fs.history is set: a run of
\* exitFullscreen is late while no enter request was issued after it, and
\* fs.exited says that a late exit has completed without an error.
\* An enter request is issued: no exit in flight is late any longer
enterIssued(f) ==
  [f EXCEPT !.exited = FALSE,
            !.runs = LET S == {[r EXCEPT !.late = FALSE] : r \in BagToSet(@)} IN
                     [x \in S |-> CopiesIn(x, @)
                                    + CopiesIn([x EXCEPT !.late = TRUE], @)]]

\* a run of exitFullscreen has completed without an error
exitDone(f, late) == [f EXCEPT !.exited = @ \/ late]

\* whether enterFullscreen locks the orientation first
locksOrientation(f) == f.orientSupported /\ f.lockType # "undefined"

\* whether exitFullscreen unlocks the orientation first
unlocksOrientationMutant(f) == FALSE

unlocksOrientation(f) == f.locked

\* enterFullscreen up to its first await, called by the enter request handler
\* (after it enqueued the request) or directly
startEnter(via, target) ==
  LET surface == fullscreenSurface(target)
      run(pc, hist) == [op |-> "enterFullscreen", via |-> via, surface |-> surface,
                        pc |-> pc, hist |-> hist, late |-> FALSE]
  IN
  /\ via = "request" => provider
  /\ BagCardinality(fs.runs) < MaxRuns
  /\ queue' = IF via = "request"
                THEN enqueue(queue, "fullscreen", "media-enter-fullscreen-request")
                ELSE queue
  /\ IF throwIfFullscreenNotSupported(surface)
       THEN /\ out' = started(target, finished("enterFullscreen", via, <<>>, "fs-unsupported"))
            /\ fs' = enterIssued(fs)
       ELSE IF surfaceActive(fs, surface)
         THEN /\ out' = started(target, finished("enterFullscreen", via, <<>>, "none"))
              /\ fs' = enterIssued(fs)
         ELSE IF locksOrientation(fs)
           THEN /\ fs' = [enterIssued(fs) EXCEPT !.runs =
                            addRun(@, run("lock", <<"orientation.lock()">>))]
                /\ out' = started(target, suspended("enterFullscreen", via,
                                                      <<"orientation.lock()">>))
           ELSE /\ fs' = [enterIssued(fs) EXCEPT !.runs = addRun(@, run("enter", <<"fs.enter()">>))]
                /\ out' = started(target, suspended("enterFullscreen", via, <<"fs.enter()">>))
  /\ UNCHANGED <<provider, store, prov, flags, sel, hls>>

\* exitFullscreen up to its first await
startExit(via, target) ==
  LET surface == fullscreenSurface(target)
      run(pc, hist) == [op |-> "exitFullscreen", via |-> via, surface |-> surface,
                        pc |-> pc, hist |-> hist, late |-> fs.history]
  IN
  /\ via = "request" => provider
  /\ BagCardinality(fs.runs) < MaxRuns
  /\ queue' = IF via = "request"
                THEN enqueue(queue, "fullscreen", "media-exit-fullscreen-request")
                ELSE queue
  /\ IF throwIfFullscreenNotSupported(surface)
       THEN /\ out' = started(target, finished("exitFullscreen", via, <<>>, "fs-unsupported"))
            /\ UNCHANGED fs
       ELSE IF ~surfaceActive(fs, surface)
         THEN /\ out' = started(target, finished("exitFullscreen", via, <<>>, "none"))
              /\ fs' = exitDone(fs, fs.history)
         ELSE IF unlocksOrientation(fs)
           THEN /\ fs' = [fs EXCEPT !.runs =
                            addRun(@, run("unlock", <<"orientation.unlock()">>))]
                /\ out' = started(target, suspended("exitFullscreen", via,
                                                      <<"orientation.unlock()">>))
           ELSE /\ fs' = [fs EXCEPT !.runs = addRun(@, run("exit", <<"fs.exit()">>))]
                /\ out' = started(target, suspended("exitFullscreen", via, <<"fs.exit()">>))
  /\ UNCHANGED <<provider, store, prov, flags, sel, hls>>

removeRun(runs, r) == runs (-) SetToBag({r})

\* the adapters' own effects when their promises resolve
lockResolved(f) == [f EXCEPT !.locked = TRUE]

unlockResolved(f) == [f EXCEPT !.locked = FALSE]

\* the awaited call of run r settles (ok: resolved, otherwise rejected) and
\* the run goes on to its next await or to its end
settle(r, ok) ==
  LET fail(mark) == /\ fs' = [fs EXCEPT !.runs = removeRun(@, r)]
                    /\ out' = finished(r.op, r.via, Append(r.hist, mark), "rejected")
      goesOn(f, pc, h) == [f EXCEPT !.runs = addRun(removeRun(@, r),
                                                    [r EXCEPT !.pc = pc, !.hist = h])]
  IN
  /\ r \in BagToSet(fs.runs)
  /\ CASE r.pc = "lock" ->
            IF ok
              THEN LET h == r.hist \o <<"lock:resolved", "fs.enter()">> IN
                   /\ fs' = goesOn(lockResolved(fs), "enter", h)
                   /\ out' = suspended(r.op, r.via, h)
              ELSE fail("lock:rejected")
       [] r.pc = "unlock" ->
            IF ok
              THEN LET h == r.hist \o <<"unlock:resolved", "fs.exit()">> IN
                   /\ fs' = goesOn(unlockResolved(fs), "exit", h)
                   /\ out' = suspended(r.op, r.via, h)
              ELSE fail("unlock:rejected")
       [] r.pc = "enter" ->
            IF ok
              THEN /\ fs' = [setSurfaceActive(fs, r.surface, TRUE) EXCEPT
                               !.runs = removeRun(@, r)]
                   /\ out' = finished(r.op, r.via, Append(r.hist, "enter:resolved"),
                                      "none")
              ELSE fail("enter:rejected")
       [] OTHER ->
            IF ok
              THEN /\ fs' = [exitDone(setSurfaceActive(fs, r.surface, FALSE), r.late)
                               EXCEPT !.runs = removeRun(@, r)]
                   /\ out' = finished(r.op, r.via, Append(r.hist, "exit:resolved"),
                                      "none")
              ELSE fail("exit:rejected")
  /\ UNCHANGED <<provider, store, prov, queue, flags, sel, hls>>

(***************************************************************************)
(* Sources and provider loaders.  A source's src is a URL string or a      *)
(* non-string handle (a MediaStream, say); a missing type is "undefined".  *)
(***************************************************************************)
\* utils/mime: the extension patterns and the type sets
VIDEO_EXTENSIONS(src) == src = "a.mp4"

AUDIO_EXTENSIONS(src) == src = "c.mp3"

HLS_VIDEO_EXTENSIONS(src) == src = "b.m3u8"

VIDEO_TYPES == {"video/mp4"}

AUDIO_TYPES == {"audio/mpeg"}

HLS_VIDEO_TYPES == {"application/x-mpegurl"}

isHLSSrc(src) ==
  (isString(src.src) /\ HLS_VIDEO_EXTENSIONS(src.src)) \/ src.type \in HLS_VIDEO_TYPES

\* normalizeSrc's type of one entry
normalizeType(src, type) ==
  IF type # "undefined" THEN type
  ELSE IF ~isString(src) \/ startsWithBlob(src) THEN "video/object"
  ELSE "?"

\* normalizeSrc: raw is <<"string", s>>, <<"handle", h>>, <<"object", item>> or
\* <<"array", items>>, an item being [src, type]
normalizeSrc(kind, raw) ==
  LET items == CASE kind = "array" -> raw
                 [] kind = "object" -> <<raw>>
                 [] OTHER -> <<[src |-> raw, type |-> "undefined"]>>
  IN [i \in 1..Len(items) |->
        [src |-> items[i].src, type |-> normalizeType(items[i].src, items[i].type)]]

\* VideoProviderLoader.canPlay; nativeHLS is canPlayHLSNatively()
videoCanPlay(src, nativeHLS) ==
  IF isString(src.src)
    THEN \/ VIDEO_EXTENSIONS(src.src)
         \/ src.type \in VIDEO_TYPES
         \/ (startsWithBlob(src.src) /\ src.type = "video/object")
         \/ (isHLSSrc(src) /\ nativeHLS)
    ELSE src.type = "video/object"

\* AudioProviderLoader.canPlay and HLSProviderLoader.canPlay; hlsSupported is
\* whether hls.js can run here
audioCanPlay(src) ==
  isString(src.src) /\ (AUDIO_EXTENSIONS(src.src) \/ src.type \in AUDIO_TYPES)

hlsCanPlay(src, hlsSupported) == isHLSSrc(src) /\ hlsSupported

canPlay(loader, src, env) ==
  CASE loader = "video" -> videoCanPlay(src, env.nativeHLS)
    [] loader = "audio" -> audioCanPlay(src)
    [] loader = "hls" -> hlsCanPlay(src, env.hlsSupported)
    [] OTHER -> FALSE

mediaType(loader) ==
  CASE loader = "audio" -> "audio"
    [] loader \in {"video", "hls"} -> "video"
    [] OTHER -> "unknown"

\* $loaders
loaders(preferNativeHLS) ==
  IF preferNativeHLS THEN <<"video", "audio", "hls">>
                     ELSE <<"hls", "video", "audio">>

\* Array.prototype.find over the loaders: the first that can play, or "null"
RECURSIVE findLoader(_, _, _, _)
findLoader(ls, i, src, env) ==
  IF i > Len(ls) THEN "null"
  ELSE IF canPlay(ls[i], src, env) THEN ls[i]
  ELSE findLoader(ls, i + 1, src, env)

NoSource == [src |-> "", type |-> ""]

\* the loop of the selection effect from source i on, acc holding
\* newSource and newLoader
RECURSIVE selectFirstFrom(_, _, _, _, _)
selectFirstFrom(sources, i, ls, env, acc) ==
  IF i > Len(sources) THEN acc
  ELSE LET loader == findLoader(ls, 1, sources[i], env) IN
       IF loader # "null" THEN [source |-> sources[i], loader |-> loader]
       ELSE selectFirstFrom(sources, i + 1, ls, env, acc)

RECURSIVE selectFrom(_, _, _, _, _)
selectFrom(sources, i, ls, env, acc) ==
  IF i > Len(sources) THEN acc
  ELSE LET loader == findLoader(ls, 1, sources[i], env) IN
       selectFrom(sources, i + 1, ls, env,
                  IF loader # "null" THEN [source |-> sources[i], loader |-> loader]
                                     ELSE acc)

\* the selection effect: what it resolves, and the events it dispatches
selection(sources, preferNativeHLS, env) ==
  selectFrom(sources, 1, loaders(preferNativeHLS), env,
             [source |-> NoSource, loader |-> "null"])

selectionEventsMutant(new, currentSource, currentLoader) ==
  IF \/ new.source.src # currentSource.src
     \/ new.source.type # currentSource.type
     \/ new.loader # currentLoader
    THEN <<Event("source-change", new.source.src),
           Event("media-type-change", mediaType(new.loader)),
           Event("provider-change", "null"),
           Event("provider-loader-change", new.loader)>>
    ELSE <<>>

selectionEvents(new, currentSource, currentLoader) ==
  (IF new.source.src # currentSource.src \/ new.source.type # currentSource.type
     THEN <<Event("source-change", new.source.src),
            Event("media-type-change", mediaType(new.loader))>>
     ELSE <<>>)
  \o (IF new.loader # currentLoader
        THEN <<Event("provider-change", "null"),
               Event("provider-loader-change", new.loader)>>
        ELSE <<>>)

\* $src changes: sources-change puts the normalized list in the store, the
\* selection effect runs on it, and the state manager commits what the
\* dispatched events carry: the source, the media type, the loader, and
\* $provider cleared by provider-change; then the setup and load effects run
\* if what they read has changed
srcChange(kind, raw) ==
  LET sources == normalizeSrc(kind, raw)
      new == selection(sources, sel.preferNativeHLS, sel.env)
      sourceChanged == new.source.src # sel.source.src \/ new.source.type # sel.source.type
      committed == IF sourceChanged THEN new.source ELSE sel.source
      detached == provider /\ new.loader # sel.loader
      calls == loadCalls(detached, detached \/ sourceChanged,
                         provider /\ ~detached, store.canLoad, committed)
  IN
  /\ sel' = afterLoad([sel EXCEPT !.sources = sources,
                                  !.source = committed,
                                  !.mediaType = IF sourceChanged THEN mediaType(new.loader)
                                                                 ELSE @,
                                  !.loader = new.loader],
                      calls, detached, committed)
  /\ provider' = (provider /\ ~detached)
  /\ out' = [Env("src-change") EXCEPT
               !.calls = calls,
               !.events = <<Event("sources-change", "sources")>>
                            \o selectionEvents(new, sel.source, sel.loader)]
  /\ UNCHANGED <<store, prov, queue, flags, fs, hls>>

\* $preferNativeHLS changes: $loaders is recomputed when next read; the
\* selection effect reads it with peek and is not run again
preferNativeHLSChange ==
  /\ sel' = [sel EXCEPT !.preferNativeHLS = ~@]
  /\ out' = Env("prefer-native-hls-change")
  /\ UNCHANGED <<provider, store, prov, queue, flags, fs, hls>>

(***************************************************************************)
(* HLS lifecycle manager (useHLS).  hls.instances holds every engine        *)
(* instance constructed so far with the number of times destroy() was      *)
(* called on it; hls.instance is the published $instance (0 for null);     *)
(* hls.owned is the instance the attach effect's pending cleanup closes    *)
(* over (0 when the effect's last run returned no cleanup); hls.loop is    *)
(* the instance the live-edge loop samples (0 when it is not running).     *)
(***************************************************************************)
\* engine constructors $ctor may hold, 0 standing for null
NumCtors == 2

\* engine instances constructed in one behaviour
MaxInstances == 3

ErrorTypes == {"networkError", "mediaError", "muxError", "otherError"}

LevelTypes == {"EVENT", "VOD", "undefined"}

destroyInstance(instances, i) ==
  [instances EXCEPT ![i] = [@ EXCEPT !.destroyed = @ + 1]]

\* the cleanup the attach effect returned: listening.clear(),
\* instance.destroy(), $instance.set(null)
cleanupMutant(h) ==
  IF h.owned = 0 THEN h
  ELSE [h EXCEPT !.instance = 0, !.owned = 0, !.listening = FALSE]

cleanup(h) ==
  IF h.owned = 0 THEN h
  ELSE [h EXCEPT !.instances = destroyInstance(@, h.owned),
                 !.instance = 0, !.owned = 0, !.listening = FALSE]

\* $ctor changes: the attach effect's cleanup runs, then the effect itself
ctorChange(c) ==
  LET h == [cleanup(hls) EXCEPT !.ctor = c]
      n == Len(hls.instances) + 1
  IN
  /\ ~hls.disposed
  /\ c # hls.ctor
  /\ c # 0 => Len(hls.instances) < MaxInstances
  /\ hls' = liveEdgeEffect(hls, store.live,
                IF c = 0 THEN h
                ELSE [h EXCEPT !.instances = Append(@, [ctor |-> c, destroyed |-> 0]),
                               !.instance = n, !.owned = n, !.listening = TRUE],
                store.live)
  /\ out' = [Env("ctor-change") EXCEPT
               !.calls = (IF hls.owned # 0 THEN <<"destroy">> ELSE <<>>)
                           \o (IF c # 0 THEN <<"new", "attachMedia">> ELSE <<>>),
               !.events = IF c # 0 THEN <<Event("hls-instance", "instance"),
                                          Event("provider-setup", "provider")>>
                                   ELSE <<>>]
  /\ UNCHANGED <<provider, store, prov, queue, flags, fs, sel>>

\* the provider is torn down: the owning scope is disposed and the cleanup runs
teardown ==
  /\ ~hls.disposed
  /\ hls' = liveEdgeEffect(hls, store.live,
                           [cleanup(hls) EXCEPT !.disposed = TRUE], store.live)
  /\ out' = [Env("teardown") EXCEPT
               !.calls = IF hls.owned # 0 THEN <<"destroy">> ELSE <<>>]
  /\ UNCHANGED <<provider, store, prov, queue, flags, fs, sel>>

\* an instance emits events to its listeners until it is destroyed
emits(h, i) == i # 0 /\ h.instances[i].destroyed = 0

\* what onError does about an error
errorRecoveryMutant(fatal, type) ==
  CASE type = "networkError" -> "startLoad"
    [] type = "mediaError" -> "recoverMediaError"
    [] OTHER -> IF fatal THEN "destroy" ELSE "none"

errorRecovery(fatal, type) ==
  IF ~fatal THEN "none"
  ELSE CASE type = "networkError" -> "startLoad"
         [] type = "mediaError" -> "recoverMediaError"
         [] OTHER -> "destroy"

\* onError, subscribed on the instance the attach effect constructed; it acts
\* on the published instance, if there is one
onError(fatal, type) ==
  LET action == errorRecovery(fatal, type) IN
  /\ \E i \in 1..Len(hls.instances) : emits(hls, i)
  /\ hls' = liveEdgeEffect(hls, store.live,
                IF action = "destroy" /\ hls.instance # 0
                  THEN [hls EXCEPT !.instances = destroyInstance(@, hls.instance),
                                   !.instance = 0]
                  ELSE IF action = "destroy" THEN [hls EXCEPT !.instance = 0]
                  ELSE hls,
                store.live)
  /\ out' = [Ran("hls-error") EXCEPT
               !.detail = type, !.flag = fatal,
               !.calls = IF action # "none" /\ hls.instance # 0
                           THEN <<action>> ELSE <<>>]
  /\ UNCHANGED <<provider, store, prov, queue, flags, fs, sel>>

\* one turn of the live-edge loop: the store takes the sampled instance's
\* liveSyncPosition, Infinity when the engine reports none
sampled(pos) == IF pos = Undefined THEN PosInf ELSE pos

rafTick(pos) ==
  /\ hls.loop # 0
  /\ store' = [store EXCEPT !.liveSyncPosition = sampled(pos)]
  /\ out' = [Env("raf-tick") EXCEPT !.arg = pos, !.calls = <<"liveSyncPosition">>]
  /\ UNCHANGED <<provider, prov, queue, flags, fs, sel, hls>>

\* the stream type onLevelLoaded publishes
streamTypeMutant(type, live, duration) ==
  IF live
    THEN IF IsFinite(duration) THEN "live:dvr" ELSE "live"
    ELSE "on-demand"

streamType(type, live, duration) ==
  IF live
    THEN IF type = "EVENT" /\ IsFinite(duration) THEN "live:dvr" ELSE "live"
    ELSE "on-demand"

\* onLevelLoaded, subscribed on the instance the attach effect constructed
onLevelLoaded(type, live, duration) ==
  /\ \E i \in 1..Len(hls.instances) : emits(hls, i)
  /\ hls.instance # 0
  /\ out' = IF store.canPlay
              THEN [Ran("hls-level-loaded") EXCEPT
                      !.detail = type, !.flag = live, !.arg = duration]
              ELSE [Ran("hls-level-loaded") EXCEPT
                      !.detail = type, !.flag = live, !.arg = duration,
                      !.events = <<Event("stream-type-change",
                                         streamType(type, live, duration)),
                                   Event("duration-change", "duration")>>,
                      !.calls = <<"media.dispatchEvent(canplay)">>]
  /\ UNCHANGED <<provider, store, prov, queue, flags, fs, sel, hls>>

(***************************************************************************)
(* The state after construction.                                           *)
(***************************************************************************)
InitStore ==
  [canLoad |-> FALSE, canPlay |-> FALSE, paused |-> TRUE, muted |-> FALSE,
   volume |-> 100, ended |-> FALSE, seeking |-> FALSE, canSeek |-> FALSE,
   live |-> FALSE, liveEdge |-> FALSE, userBehindLiveEdge |-> FALSE,
   seekableStart |-> Fin(0), seekableEnd |-> Fin(0),
   liveSyncPosition |-> Undefined, currentTime |-> Fin(0),
   attemptingAutoplay |-> FALSE]

InitProv == [muted |-> FALSE, volume |-> 100, currentTime |-> Fin(0)]

\* frames: the loop callbacks waiting for their animation frame
InitFlags ==
  [isSeeking |-> FALSE, isLooping |-> FALSE, isReplay |-> FALSE, frames |-> 0]

InitFs ==
  [supported |-> TRUE, provSupported |-> TRUE, orientSupported |-> TRUE,
   lockType |-> "undefined", active |-> FALSE, provActive |-> FALSE,
   locked |-> FALSE, runs |-> EmptyBag, history |-> FALSE, exited |-> FALSE]

\* the default src is the empty string; nothing can play it
InitSel(env) ==
  [sources |-> normalizeSrc("string", ""), preferNativeHLS |-> FALSE,
   source |-> NoSource, mediaType |-> "unknown", loader |-> "null", env |-> env,
   setup |-> FALSE, loaded |-> NoLoad]

DefaultEnv == [nativeHLS |-> FALSE, hlsSupported |-> TRUE]

InitHls ==
  [ctor |-> 0, instances |-> <<>>, instance |-> 0, owned |-> 0,
   listening |-> FALSE, disposed |-> FALSE, loop |-> 0]

\* the request manager's own state, as construction leaves it
InitRequests ==
  /\ provider = FALSE
  /\ prov = InitProv
  /\ queue = EmptyQueue
  /\ flags = InitFlags
  /\ out = Env("init")

\* everything but the store, as construction leaves it
InitRest ==
  /\ InitRequests
  /\ fs = InitFs
  /\ sel = InitSel(DefaultEnv)
  /\ hls = InitHls

Init ==
  /\ store = InitStore
  /\ InitRest

(***************************************************************************)
(* Volume: mute, unmute and volume-change requests.                        *)
(***************************************************************************)
NextVolume ==
  \/ providerChange
  \/ canPlayChange
  \/ volumeChange
  \/ onMuteRequest
  \/ onUnmuteRequest
  \/ \E v \in Volumes : onVolumeChangeRequest(v)
  \/ listenerDrops("media-mute-request")

SpecVolume == Init /\ [][NextVolume]_vars

(***************************************************************************)
(* Seeking: the seek request applied to every seekable range, live flag    *)
(* and requested time of the input sets.  The media the store describes is *)
(* drawn at the start and stays as it is.                                  *)
(***************************************************************************)
InitSeek ==
  /\ store \in {[InitStore EXCEPT !.seekableStart = a, !.seekableEnd = b,
                                  !.canSeek = c, !.live = l, !.ended = e] :
                  a \in SeekableStarts, b \in SeekableEnds,
                  c \in BOOLEAN, l \in BOOLEAN, e \in BOOLEAN}
  /\ InitRest

NextSeek ==
  \/ providerChange
  \/ onSeekingRequest
  \/ \E t \in SeekTimes, trusted \in BOOLEAN : onSeekRequest(t, trusted)
  \/ listenerDrops("media-seek-request")

SpecSeek == InitSeek /\ [][NextSeek]_vars

(***************************************************************************)
(* Live edge: seek-to-live-edge as a request and as a manager method.      *)
(***************************************************************************)
InitLive ==
  /\ store \in {[InitStore EXCEPT !.seekableEnd = b] : b \in SeekableEnds}
  /\ InitRest

NextLive ==
  \/ providerChange
  \/ canPlayChange
  \/ canSeekChange
  \/ liveChange
  \/ liveEdgeChange
  \/ \E pos \in LiveSyncPositions : liveSyncPositionChange(pos)
  \/ onSeekRequest(Fin(0), TRUE)
  \/ onSeekToLiveEdgeRequest
  \/ seekToLiveEdge
  \/ listenerDrops("media-live-edge-request")

SpecLive == InitLive /\ [][NextLive]_vars

(***************************************************************************)
(* Playback: play and pause, as requests and as manager methods.           *)
(***************************************************************************)
NextPlay ==
  \/ providerChange
  \/ canPlayChange
  \/ pausedChange
  \/ endedChange
  \/ attemptingAutoplayChange
  \/ \E rejected \in BOOLEAN : onPlayRequest(rejected)
  \/ \E rejected \in BOOLEAN : onPauseRequest(rejected)
  \/ \E rejected \in BOOLEAN : play(rejected)
  \/ \E rejected \in BOOLEAN : pause(rejected)
  \/ listenerDrops("media-play-request")

SpecPlay == Init /\ [][NextPlay]_vars

(***************************************************************************)
(* Looping: loop requests and their animation-frame callbacks, over media  *)
(* that is paused or not, ended or not, ready or not.                      *)
(***************************************************************************)
NextLoop ==
  \/ providerChange
  \/ canPlayChange
  \/ pausedChange
  \/ endedChange
  \/ attemptingAutoplayChange
  \/ onLoopRequest
  \/ \E rejected \in BOOLEAN : loopFrame(rejected)
  \/ listenerDrops("media-loop-request")

SpecLoop == Init /\ [][NextLoop]_vars

(***************************************************************************)
(* The request manager as a whole: every request and method that reaches   *)
(* the provider, over media drawn at the start (paused or playing, muted   *)
(* or not, live and seekable or neither).                                  *)
(***************************************************************************)
InitManager ==
  /\ store \in {[InitStore EXCEPT !.paused = p, !.muted = m, !.live = l,
                                  !.canSeek = l, !.seekableEnd = Fin(FarEnd)] :
                  p \in BOOLEAN, m \in BOOLEAN, l \in BOOLEAN}
  /\ InitRest

Next ==
  \/ providerChange
  \/ canPlayChange
  \/ onMuteRequest
  \/ onUnmuteRequest
  \/ onVolumeChangeRequest(UnmuteFloorVolume)
  \/ onPlayRequest(FALSE)
  \/ onPauseRequest(FALSE)
  \/ onSeekRequest(Fin(MaxTime), TRUE)
  \/ onSeekToLiveEdgeRequest
  \/ seekToLiveEdge
  \/ \E rejected \in BOOLEAN : play(rejected)
  \/ \E rejected \in BOOLEAN : pause(rejected)
  \/ listenerDrops("media-play-request")

Spec == InitManager /\ [][Next]_vars

(***************************************************************************)
(* Properties of the media request manager.                                *)
(***************************************************************************)
\* what the claims call "not live, already at the live edge, or seeking
\* disallowed"
AtLiveEdgeOrUnseekable(s) == ~s.live \/ s.liveEdge \/ ~s.canSeek

\* a requested time clamped into [lo, hi]
ClampInto(lo, t, hi) ==
  IF t = NaN THEN NaN
  ELSE IF NumLess(hi, t) THEN hi
  ELSE IF NumLess(t, lo) THEN lo
  ELSE t

\* a <= b
NumLeq(a, b) == ~NumLess(b, a)

\* C3: play() called while the media is paused and can-play has not been
\* reached, or no provider is attached, throws the not-ready error and never
\* calls provider.play() (nor writes the provider at all).
C3_PlayBeforeReadyThrows ==
  (out.op = "play" /\ store.paused /\ (~store.canPlay \/ ~provider))
    => /\ out.raised = "not-ready"
       /\ out.thrown
       /\ out.calls = <<>>

C3_Witness ==
  /\ out.op = "play"
  /\ store.paused
  /\ provider
  /\ ~store.canPlay
  /\ out.thrown
  /\ out.raised = "not-ready"

\* C4 (as claimed): no provider-dependent action, request or method, calls or
\* writes the provider before can-play; each raises the not-ready error.
ProviderRequests ==
  {"media-mute-request", "media-unmute-request", "media-volume-change-request",
   "media-play-request", "media-pause-request", "media-seek-request"}

GuardedOps == {"play", "pause", "seekToLiveEdge", "media-live-edge-request"}

C4_EveryActionGuarded ==
  (out.op \in ProviderRequests \cup GuardedOps /\ out.ran /\ ~store.canPlay)
    => /\ out.calls = <<>>
       /\ out.raised = "not-ready"

\* whether the run got past the handler's own "already so" return
PastNoop ==
  CASE out.op = "media-mute-request" -> ~store.muted
    [] out.op = "media-unmute-request" -> store.muted
    [] out.op = "media-volume-change-request" -> Fin(store.volume) # out.arg
    [] out.op \in {"media-play-request", "play"} -> store.paused
    [] out.op \in {"media-pause-request", "pause"} -> ~store.paused
    [] out.op = "media-seek-request" ->
         /\ store.canSeek
         /\ IsFinite(ClampInto(NumAdd(store.seekableStart, SeekMargin), out.arg,
                               NumAdd(store.seekableEnd, -SeekMargin)))
    [] out.op \in {"seekToLiveEdge", "media-live-edge-request"} ->
         ~AtLiveEdgeOrUnseekable(store)
    [] OTHER -> FALSE

\* C4 (amended): the manager's play(), pause() and seekToLiveEdge(), and the
\* live-edge request that goes through seekToLiveEdge(), never call or write
\* the provider before can-play or without a provider, and raise the not-ready
\* error unless the call is a no-op; the mute, unmute, volume-change, play,
\* pause and seek request handlers are not guarded and call or write the
\* attached provider whether or not can-play has been reached.
C4_OnlyMethodsGuarded ==
  /\ (out.op \in GuardedOps /\ out.ran /\ ~(provider /\ store.canPlay))
       => /\ out.calls = <<>>
          /\ PastNoop => out.raised = "not-ready"
          /\ ~PastNoop => out.raised = "none"
  /\ (out.op \in ProviderRequests /\ out.ran /\ PastNoop)
       => /\ out.calls # <<>>
          /\ out.raised # "not-ready"

C4_Witness ==
  /\ out.op = "seekToLiveEdge"
  /\ provider
  /\ ~store.canPlay
  /\ out.raised = "not-ready"
  /\ out.calls = <<>>

\* C5 (as claimed): the time a seek request with a finite requested time
\* writes lies in [seekableStart + 0.1, seekableEnd - 0.1], whatever the
\* width of the seekable range; a time above seekableEnd is written as
\* seekableEnd - 0.1 and one below seekableStart as seekableStart + 0.1.
SeekWrote ==
  /\ out.op = "media-seek-request"
  /\ out.calls = <<"currentTime=">>
  /\ IsFinite(out.arg)

SeekLo == NumAdd(store.seekableStart, SeekMargin)

SeekHi == NumAdd(store.seekableEnd, -SeekMargin)

C5_WrittenTimeInRange ==
  SeekWrote
    => /\ NumLeq(SeekLo, prov.currentTime)
       /\ NumLeq(prov.currentTime, SeekHi)
       /\ NumLess(store.seekableEnd, out.arg) => prov.currentTime = SeekHi
       /\ NumLess(out.arg, store.seekableStart) => prov.currentTime = SeekLo

\* C5 (amended): the same, for a seekable range at least 0.2 wide; in a
\* narrower range the time written is seekableEnd - 0.1 whatever was asked
\* (which is below seekableStart + 0.1).
C5_WrittenTimeInWideRange ==
  SeekWrote
    => IF NumLeq(SeekLo, SeekHi)
         THEN /\ NumLeq(SeekLo, prov.currentTime)
              /\ NumLeq(prov.currentTime, SeekHi)
              /\ NumLess(store.seekableEnd, out.arg) => prov.currentTime = SeekHi
              /\ NumLess(out.arg, store.seekableStart) => prov.currentTime = SeekLo
              /\ (NumLeq(SeekLo, out.arg) /\ NumLeq(out.arg, SeekHi))
                   => prov.currentTime = out.arg
         ELSE prov.currentTime = SeekHi

C5_Witness ==
  /\ SeekWrote
  /\ NumLeq(SeekLo, SeekHi)
  /\ NumLess(store.seekableEnd, out.arg)
  /\ prov.currentTime = SeekHi

\* C6: a seek request whose clamped time is not finite, or that arrives while
\* canSeek is false, writes nothing to the provider (its currentTime stays),
\* records no 'seeked' entry and leaves userBehindLiveEdge and the store's
\* current time as they were.
C6_IgnoredSeekChangesNothing ==
  [][(/\ out'.op = "media-seek-request"
      /\ out'.ran
      /\ \/ ~store.canSeek
         \/ ~IsFinite(ClampInto(NumAdd(store.seekableStart, SeekMargin), out'.arg,
                                NumAdd(store.seekableEnd, -SeekMargin))))
       => /\ prov' = prov
          /\ out'.calls = <<>>
          /\ queue'["seeked"] = queue["seeked"]
          /\ store'.userBehindLiveEdge = store.userBehindLiveEdge
          /\ store'.currentTime = store.currentTime]_vars

C6_Witness ==
  /\ out.op = "media-seek-request"
  /\ out.ran
  /\ out.arg = NaN
  /\ store.canSeek
  /\ store.live
  /\ out.calls = <<>>
  /\ queue["seeked"] = "none"

\* C7: an unmute request handled while the store shows muted with volume 0
\* (a mute request has taken effect) leaves the provider unmuted at volume
\* 0.25; with a nonzero volume it leaves the provider's volume as it was;
\* mute when already muted and unmute when not muted touch neither the
\* provider nor the queue.
C7_UnmuteRestoresFloorVolume ==
  [][/\ (out'.op = "media-unmute-request" /\ out'.ran /\ store.muted)
          => /\ prov'.muted = FALSE
             /\ prov'.volume = IF store.volume = 0 THEN UnmuteFloorVolume
                                                   ELSE prov.volume
     /\ (out'.op = "media-unmute-request" /\ out'.ran /\ ~store.muted)
          => (prov' = prov /\ queue' = queue)
     /\ (out'.op = "media-mute-request" /\ out'.ran /\ store.muted)
          => (prov' = prov /\ queue' = queue)
     /\ (out'.op = "media-mute-request" /\ out'.ran /\ ~store.muted)
          => prov'.muted = TRUE]_vars

C7_Witness ==
  /\ out.op = "media-unmute-request"
  /\ out.ran
  /\ store.muted
  /\ store.volume = 0
  /\ queue["volume"] = "media-unmute-request"
  /\ ~prov.muted
  /\ prov.volume = UnmuteFloorVolume

\* C8 (as claimed): seek-to-live-edge, request and method alike, changes
\* nothing when not live, at the live edge or unseekable; otherwise it sets
\* provider.currentTime to the tracked live-sync position and clears
\* userBehindLiveEdge.
LiveEdgeOps == {"media-live-edge-request", "seekToLiveEdge"}

C8_SeekToLiveEdgeAsClaimed ==
  [][(out'.op \in LiveEdgeOps /\ out'.ran)
       => IF AtLiveEdgeOrUnseekable(store)
            THEN store' = store /\ prov' = prov /\ queue' = queue
            ELSE /\ prov'.currentTime = store.liveSyncPosition
                 /\ store'.userBehindLiveEdge = FALSE]_vars

\* C8 (amended): when not live, at the live edge or unseekable, the request
\* changes nothing and the method changes nothing but userBehindLiveEdge, which
\* it clears; otherwise both clear userBehindLiveEdge and, with a provider
\* attached and can-play reached, set provider.currentTime to the live-sync
\* position, or to seekableEnd - 2 when that position is undefined; before
\* can-play they write nothing to the provider.
C8_SeekToLiveEdge ==
  [][(out'.op \in LiveEdgeOps /\ out'.ran)
       => IF AtLiveEdgeOrUnseekable(store)
            THEN /\ prov' = prov
                 /\ queue' = queue
                 /\ store' = IF out'.op = "seekToLiveEdge"
                               THEN [store EXCEPT !.userBehindLiveEdge = FALSE]
                               ELSE store
            ELSE /\ store' = [store EXCEPT !.userBehindLiveEdge = FALSE]
                 /\ IF provider /\ store.canPlay
                      THEN prov'.currentTime =
                             IF store.liveSyncPosition = Undefined
                               THEN NumAdd(store.seekableEnd, -LiveEdgeTolerance)
                               ELSE store.liveSyncPosition
                      ELSE prov' = prov /\ out'.raised = "not-ready"]_vars

C8_Witness ==
  /\ out.op = "media-live-edge-request"
  /\ out.ran
  /\ store.live /\ store.canSeek /\ ~store.liveEdge
  /\ store.liveSyncPosition = Fin(FarEnd - LiveEdgeTolerance + 1)
  /\ prov.currentTime = store.liveSyncPosition
  /\ ~store.userBehindLiveEdge
  /\ queue["seeked"] = "media-live-edge-request"

\* C21: a request handler or manager method that ends in an error leaves the
\* store, the looping and replay flags and the orientation lock as they were
\* before it ran.  (Every handler and method of the live-edge specification
\* runs in one step, so the state before the step is the state before the
\* operation.)
C21_FailedOperationRestoresState ==
  [][(out'.ran /\ out'.raised # "none")
       => /\ store' = store
          /\ flags'.isLooping = flags.isLooping
          /\ flags'.isReplay = flags.isReplay
          /\ fs'.locked = fs.locked]_vars

\* C21 (what the code does): seekToLiveEdge clears userBehindLiveEdge before
\* its guard throws and nothing sets it again; the rest of the store is kept
C21_FailedSeekToLiveEdge ==
  [][(out'.op \in LiveEdgeOps /\ out'.ran /\ out'.raised # "none")
       => /\ store' = [store EXCEPT !.userBehindLiveEdge = FALSE]
          /\ prov' = prov
          /\ flags' = flags]_vars

\* a seekToLiveEdge that threw and left userBehindLiveEdge cleared
C21_Witness ==
  /\ out.op = "seekToLiveEdge"
  /\ out.thrown
  /\ out.raised = "not-ready"
  /\ store.live /\ store.canSeek /\ ~store.liveEdge
  /\ ~store.userBehindLiveEdge

\* C11: a request received while no provider is attached is kept, and its
\* action is applied to the provider once one has connected: a mute request
\* dropped by the listener leaves the provider muted when it connects.
C11_DroppedRequestAppliedOnConnect ==
  [][(/\ out.op = "media-mute-request"
      /\ ~out.ran
      /\ ~store.muted
      /\ out'.op = "provider-change"
      /\ provider')
       => prov'.muted]_vars

\* C12: a failed play attempt, by request or by play(), whether the provider
\* rejected or the not-ready guard threw, hands the state manager exactly one
\* play-fail event with the error as detail and autoplay equal to the store's
\* attemptingAutoplay.
C12_PlayFailureSurfaced ==
  (out.op \in {"media-play-request", "play"} /\ out.raised # "none")
    => out.events = <<PlayFail(IF store.attemptingAutoplay THEN "true" ELSE "false")>>

\* C13: when provider.pause() rejects after a pause request, no event is
\* handed to the state manager, no store field changes and the queue is left
\* without a 'pause' record.
C13_PauseFailureSwallowed ==
  [][(out'.op = "media-pause-request" /\ out'.raised = "rejected")
       => /\ out'.events = <<>>
          /\ store' = store
          /\ queue'["pause"] = "none"
          /\ ~out'.thrown]_vars

C13_Witness ==
  /\ out.op = "media-pause-request"
  /\ out.raised = "rejected"
  /\ out.calls = <<"pause()">>
  /\ out.enq = <<"pause">>
  /\ queue["pause"] = "none"
  /\ ~store.paused

\* C20 (as claimed): a loop request sets the looping and replay flags on the
\* next animation frame, not before, and re-invokes play; when the replay
\* fails (the not-ready guard throws or provider.play() rejects) both flags
\* end up false; and when the flags remain true provider.play() was called.
C20_FlagsTrueOnlyAfterProviderPlay ==
  [][/\ out'.op = "media-loop-request"
          => (flags'.isLooping = flags.isLooping /\ flags'.isReplay = flags.isReplay)
     /\ out'.op = "loop-frame"
          => /\ out'.raised # "none" => (~flags'.isLooping /\ ~flags'.isReplay)
             /\ (flags'.isLooping /\ flags'.isReplay)
                  => Called(out'.calls, "play()")]_vars

\* C20 (what the code does): the same, except that the flags also remain true
\* when the media was not paused at the frame: play() then returns without
\* calling the provider.  When the media was paused and the flags remain
\* true, provider.play() was called and did not reject.
C20_LoopFlags ==
  [][/\ out'.op = "media-loop-request"
          => (flags'.isLooping = flags.isLooping /\ flags'.isReplay = flags.isReplay)
     /\ out'.op = "loop-frame"
          => /\ out'.raised # "none" => (~flags'.isLooping /\ ~flags'.isReplay)
             /\ out'.raised = "none" => (flags'.isLooping /\ flags'.isReplay)
             /\ out'.raised = "not-ready"
                  => (store.paused /\ out'.calls = <<>> /\ Len(out'.events) = 1)
             /\ out'.raised = "rejected"
                  => (store.paused /\ Called(out'.calls, "play()"))
             /\ (flags'.isLooping /\ flags'.isReplay)
                  => IF store.paused THEN Called(out'.calls, "play()")
                                     ELSE out'.calls = <<>>]_vars

\* a frame that left both flags set without any call of the provider
C20_Witness ==
  /\ out.op = "loop-frame"
  /\ out.raised = "none"
  /\ out.calls = <<>>
  /\ ~store.paused
  /\ flags.isLooping
  /\ flags.isReplay

(***************************************************************************)
(* Source selection, in every runtime: with or without native HLS          *)
(* playback, with or without hls.js support.                               *)
(***************************************************************************)
\* longest source list tried
MaxSources == 2

RawItems ==
  {[src |-> s, type |-> "undefined"] :
     s \in (SrcStrings \ {"", "d.txt"}) \cup {StreamHandle}}
    \cup {[src |-> "d.txt", type |-> "application/x-mpegurl"],
          [src |-> "d.txt", type |-> "video/mp4"]}

\* the entries of the source arrays: a video URL, an HLS URL (playable or not,
\* by the runtime), an audio URL and a URL no loader can play
ArrayItems ==
  {[src |-> s, type |-> "undefined"] : s \in {"a.mp4", "b.m3u8", "c.mp3", "d.txt"}}

RawArrays == UNION {[1..n -> ArrayItems] : n \in 0..MaxSources}

InitSelection ==
  /\ store = InitStore
  /\ InitRequests
  /\ fs = InitFs
  /\ hls = InitHls
  /\ sel \in {InitSel([nativeHLS |-> n, hlsSupported |-> h]) :
                n \in BOOLEAN, h \in BOOLEAN}

NextSelection ==
  \/ \E s \in SrcStrings : srcChange("string", s)
  \/ srcChange("handle", StreamHandle)
  \/ \E item \in RawItems : srcChange("object", item)
  \/ \E items \in RawArrays : srcChange("array", items)
  \/ preferNativeHLSChange

SpecSelection == InitSelection /\ [][NextSelection]_vars

(***************************************************************************)
(* Properties of the source selector.                                      *)
(***************************************************************************)
LoaderNames == {"hls", "video", "audio"}

Playable(src) == \E l \in LoaderNames : canPlay(l, src, sel.env)

\* the index of the last playable source of a list, 0 if none is playable
LastPlayable(sources) ==
  IF \E i \in 1..Len(sources) : Playable(sources[i])
    THEN CHOOSE i \in 1..Len(sources) :
           /\ Playable(sources[i])
           /\ \A j \in (i + 1)..Len(sources) : ~Playable(sources[j])
    ELSE 0

\* the first loader, in the order the preference gives, that can play src
PreferredLoader(preferNativeHLS, src) ==
  LET order == IF preferNativeHLS THEN <<"video", "audio", "hls">>
                                  ELSE <<"hls", "video", "audio">>
  IN IF \E i \in 1..3 : canPlay(order[i], src, sel.env)
       THEN order[CHOOSE i \in 1..3 :
                    /\ canPlay(order[i], src, sel.env)
                    /\ \A j \in 1..(i - 1) : ~canPlay(order[j], src, sel.env)]
       ELSE "null"

\* C1: whatever list is selected from and whichever way the preference is set,
\* the source committed is the last one in list order that some loader can
\* play, never an earlier playable one, with the loader found for it and that
\* loader's media type; [a.mp4, b.m3u8] with preferNativeHLS false (and hls.js
\* supported) commits b.m3u8 with the HLS loader and media type 'video'.
C1_LastPlayableSourceWins ==
  [][out'.op = "src-change"
       => LET n == LastPlayable(sel'.sources) IN
          /\ n > 0 => /\ sel'.source = sel'.sources[n]
                      /\ sel'.loader = PreferredLoader(sel.preferNativeHLS, sel'.source)
                      /\ sel'.loader # "null"
                      /\ sel'.mediaType =
                           IF sel'.loader = "audio" THEN "audio" ELSE "video"
          /\ n = 0 => (sel'.source = NoSource /\ sel'.loader = "null")
          /\ (/\ Len(sel'.sources) = 2
              /\ sel'.sources[1].src = "a.mp4"
              /\ sel'.sources[2].src = "b.m3u8"
              /\ ~sel.preferNativeHLS
              /\ sel.env.hlsSupported)
               => /\ sel'.source.src = "b.m3u8"
                  /\ sel'.loader = "hls"
                  /\ sel'.mediaType = "video"]_vars

C1_Witness ==
  /\ out.op = "src-change"
  /\ Len(sel.sources) = 2
  /\ sel.sources[1].src = "a.mp4"
  /\ sel.sources[2].src = "b.m3u8"
  /\ ~sel.preferNativeHLS
  /\ sel.source.src = "b.m3u8"
  /\ sel.loader = "hls"
  /\ sel.mediaType = "video"

\* C2: the committed loader follows the preference flag: a committed source
\* that both the native video loader and the HLS loader can play is committed
\* with the HLS loader while preferNativeHLS is false and with the native
\* video loader while it is true, also after the flag alone has changed.
C2_LoaderFollowsPreference ==
  (/\ canPlay("video", sel.source, sel.env)
   /\ canPlay("hls", sel.source, sel.env))
     => sel.loader = IF sel.preferNativeHLS THEN "video" ELSE "hls"

\* the four events of a re-selection, as the state reached shows them
SourceEvents ==
  <<Event("source-change", sel.source.src), Event("media-type-change", sel.mediaType)>>

LoaderEvents ==
  <<Event("provider-change", "null"), Event("provider-loader-change", sel.loader)>>

\* C18 (as claimed): a re-selection that resolves a source or a loader other
\* than the committed one emits source-change, media-type-change,
\* provider-change with null and provider-loader-change, in this order; one
\* that resolves the same source and loader emits none of them.
C18_FourEventsOnAnyChange ==
  [][out'.op = "src-change"
       => Tail(out'.events) =
            IF sel'.source # sel.source \/ sel'.loader # sel.loader
              THEN SourceEvents' \o LoaderEvents'
              ELSE <<>>]_vars

\* C18 (amended): source-change then media-type-change are emitted exactly
\* when the resolved source differs (in src or type) from the committed one,
\* and provider-change with null then provider-loader-change exactly when the
\* resolved loader differs from the committed one, the source pair first when
\* both are emitted.
C18_EventsPerChange ==
  [][out'.op = "src-change"
       => Tail(out'.events) =
            (IF sel'.source # sel.source THEN SourceEvents' ELSE <<>>)
              \o (IF sel'.loader # sel.loader THEN LoaderEvents' ELSE <<>>)]_vars

C18_Witness ==
  /\ out.op = "src-change"
  /\ sel.source.src = "b.m3u8"
  /\ sel.loader = "hls"
  /\ Tail(out.events) =
       <<Event("source-change", "b.m3u8"), Event("media-type-change", "video"),
         Event("provider-change", "null"), Event("provider-loader-change", "hls")>>

(***************************************************************************)
(* Loading: the provider attaches and detaches, loading becomes permitted  *)
(* by a start-loading request or otherwise, and the source changes.        *)
(***************************************************************************)
NextLoad ==
  \/ providerChange
  \/ onStartLoading
  \/ canLoadSet
  \/ \E s \in SrcStrings : srcChange("string", s)
  \/ srcChange("handle", StreamHandle)
  \/ listenerDrops("media-start-loading")

SpecLoad == Init /\ [][NextLoad]_vars

\* the first position of a call in a run's calls, 0 if it was not made
FirstCall(calls, name) ==
  IF Called(calls, name)
    THEN CHOOSE i \in 1..Len(calls) :
           calls[i] = name /\ \A j \in 1..(i - 1) : calls[j] # name
    ELSE 0

LevelDurations == {Fin(MaxTime), PosInf}

\* what the engine reports as its liveSyncPosition
EnginePositions == {Undefined, Fin(MaxTime)}

NextHLS ==
  \/ \E c \in 0..NumCtors : ctorChange(c)
  \/ teardown
  \/ canPlayChange
  \/ liveChange
  \/ \E pos \in EnginePositions : rafTick(pos)
  \/ \E fatal \in BOOLEAN, type \in ErrorTypes : onError(fatal, type)
  \/ \E type \in LevelTypes, live \in BOOLEAN, d \in LevelDurations :
       onLevelLoaded(type, live, d)

SpecHLS == Init /\ [][NextHLS]_vars

\* C23: destroy() is called at most once on any engine instance, also when an
\* unrecoverable fatal error destroyed the instance and the attach effect's
\* cleanup runs later (teardown or a constructor change).
C23_DestroyedAtMostOnce ==
  \A i \in 1..Len(hls.instances) : hls.instances[i].destroyed <= 1

\* C23 (what the code does): only an instance that onError destroyed is
\* destroyed again, once, by the cleanup that still closes over it
C23_DestroyedTwiceOnlyAfterError ==
  \A i \in 1..Len(hls.instances) :
    /\ hls.instances[i].destroyed <= 2
    /\ hls.instances[i].destroyed = 2 => (hls.owned # i /\ hls.instance # i)
    /\ (hls.instances[i].destroyed = 1 /\ hls.owned = i) => hls.instance = 0

\* the cleanup destroyed an instance that an unrecoverable error had destroyed
C23_Witness ==
  /\ out.op \in {"teardown", "ctor-change"}
  /\ Called(out.calls, "destroy")
  /\ \E i \in 1..Len(hls.instances) : hls.instances[i].destroyed = 2

(***************************************************************************)
(* Live edge over HLS: the request manager seeks to the live edge of a     *)
(* stream whose live-sync position the live-edge loop of useHLS publishes  *)
(* into the store.                                                         *)
(***************************************************************************)
InitLiveSync ==
  /\ store = [InitStore EXCEPT !.seekableEnd = Fin(FarEnd)]
  /\ InitRest

NextLiveSync ==
  \/ providerChange
  \/ canPlayChange
  \/ canSeekChange
  \/ liveChange
  \/ liveEdgeChange
  \/ \E c \in 0..NumCtors : ctorChange(c)
  \/ \E pos \in EnginePositions : rafTick(pos)
  \/ onSeekToLiveEdgeRequest
  \/ seekToLiveEdge
  \/ listenerDrops("media-live-edge-request")

SpecLiveSync == InitLiveSync /\ [][NextLiveSync]_vars

\* the store holds no live-sync position: nothing was published yet, or the
\* loop published the Infinity that stands for a position the engine does not
\* know
PositionUnknown(s) == s.liveSyncPosition \in {Undefined, sampled(Undefined)}

\* a seek-to-live-edge that got as far as writing the provider's time
SeeksToLiveEdge(o) ==
  /\ o.op \in LiveEdgeOps
  /\ o.ran
  /\ o.calls = <<"currentTime=">>

\* C22: a seek-to-live-edge on a live, seekable stream behind the edge whose
\* live-sync position is unknown sets provider.currentTime to seekableEnd - 2,
\* also when the live-edge loop has been publishing the position.
C22_FallbackWhenPositionUnknown ==
  [][(SeeksToLiveEdge(out') /\ PositionUnknown(store))
       => prov'.currentTime = NumAdd(store.seekableEnd, -LiveEdgeTolerance)]_vars

\* C22 (what the code does): the fallback is taken only while nothing was
\* published; once the loop has published an unknown position the provider's
\* time is set to Infinity
C22_FallbackOnlyBeforeFirstSample ==
  [][SeeksToLiveEdge(out')
       => prov'.currentTime =
            IF store.liveSyncPosition = Undefined
              THEN NumAdd(store.seekableEnd, -LiveEdgeTolerance)
              ELSE store.liveSyncPosition]_vars

\* the loop published an unknown position and the seek wrote Infinity
C22_Witness ==
  /\ SeeksToLiveEdge(out)
  /\ hls.loop # 0
  /\ store.liveSyncPosition = PosInf
  /\ store.seekableEnd = Fin(FarEnd)
  /\ prov.currentTime = PosInf

(***************************************************************************)
(* Properties of the HLS lifecycle manager.                                *)
(***************************************************************************)
\* C9: on a fatal engine error, a network error calls startLoad on the
\* published instance and a media error calls recoverMediaError, neither
\* destroying the instance nor clearing the published reference; any other
\* fatal error destroys the published instance and sets the reference to
\* null; an error not flagged fatal calls nothing and changes nothing.
C9_FatalErrorRecovery ==
  [][out'.op = "hls-error"
       => LET i == hls.instance IN
          /\ i # 0
          /\ (out'.flag /\ out'.detail = "networkError")
               => (out'.calls = <<"startLoad">> /\ hls' = hls)
          /\ (out'.flag /\ out'.detail = "mediaError")
               => (out'.calls = <<"recoverMediaError">> /\ hls' = hls)
          /\ (out'.flag /\ out'.detail \notin {"networkError", "mediaError"})
               => /\ out'.calls = <<"destroy">>
                  /\ hls'.instance = 0
                  /\ hls'.instances[i].destroyed = hls.instances[i].destroyed + 1
          /\ ~out'.flag => (out'.calls = <<>> /\ hls' = hls)]_vars

C9_Witness ==
  /\ out.op = "hls-error"
  /\ out.flag
  /\ out.detail = "networkError"
  /\ out.calls = <<"startLoad">>
  /\ hls.instance # 0
  /\ hls.instances[hls.instance].destroyed = 0

\* what a level-loaded event handled before can-play leaves behind, given the
\* stream type it should publish
LevelLoadedPublishes(type) ==
  /\ out.events = <<Event("stream-type-change", type),
                    Event("duration-change", "duration")>>
  /\ out.calls = <<"media.dispatchEvent(canplay)">>

\* C14 (as claimed): before can-play a level-loaded event publishes the stream
\* type 'live:dvr' exactly when the level is live with a finite total
\* duration, 'live' when live without one and 'on-demand' otherwise, then a
\* duration-change, then forces canplay on the media element; after can-play
\* it publishes nothing.
C14_StreamTypeAsClaimed ==
  out.op = "hls-level-loaded"
    => IF store.canPlay
         THEN out.events = <<>> /\ out.calls = <<>>
         ELSE LevelLoadedPublishes(
                IF out.flag /\ IsFinite(out.arg) THEN "live:dvr"
                ELSE IF out.flag THEN "live"
                ELSE "on-demand")

\* C14 (amended): the same, with 'live:dvr' exactly when the level is live,
\* its playlist type is 'EVENT' and its total duration is finite, and 'live'
\* for every other live level.
C14_StreamType ==
  out.op = "hls-level-loaded"
    => IF store.canPlay
         THEN out.events = <<>> /\ out.calls = <<>>
         ELSE LevelLoadedPublishes(
                IF out.flag /\ out.detail = "EVENT" /\ IsFinite(out.arg) THEN "live:dvr"
                ELSE IF out.flag THEN "live"
                ELSE "on-demand")

C14_Witness ==
  /\ out.op = "hls-level-loaded"
  /\ ~store.canPlay
  /\ out.flag
  /\ out.detail = "EVENT"
  /\ IsFinite(out.arg)
  /\ out.events[1] = Event("stream-type-change", "live:dvr")

\* the engine instances constructed and not destroyed
Undestroyed == {i \in 1..Len(hls.instances) : hls.instances[i].destroyed = 0}

OneInstance ==
  /\ Cardinality(Undestroyed) <= 1
  /\ hls.instance # 0 => Undestroyed = {hls.instance}

\* C15: at most one undestroyed engine instance exists at a time; between
\* handlers the published reference is null or that one instance; and when a
\* replacement is constructed the previous instance has been destroyed (and
\* the reference cleared) first.
C15_OneLiveInstance ==
  [][/\ OneInstance'
     /\ (out'.op = "ctor-change" /\ hls'.ctor # 0)
          => /\ out'.calls = (IF hls.owned # 0 THEN <<"destroy">> ELSE <<>>)
                                \o <<"new", "attachMedia">>
             /\ \A i \in 1..Len(hls.instances) : hls'.instances[i].destroyed > 0
             /\ hls'.instance = Len(hls'.instances)
             /\ Len(hls'.instances) = Len(hls.instances) + 1]_vars

C15_Witness ==
  /\ out.op = "ctor-change"
  /\ out.calls = <<"destroy", "new", "attachMedia">>
  /\ Len(hls.instances) = 2
  /\ hls.instances[1].destroyed = 1
  /\ hls.instance = 2
  /\ Undestroyed = {2}

\* C16: the live-edge loop is running exactly when the stream is live and an
\* engine instance is published, and it samples that instance, which is not
\* destroyed; so every write of liveSyncPosition comes from the published,
\* undestroyed instance (Infinity standing for a position it does not report).
LoopFollowsLive ==
  /\ (hls.loop # 0) <=> (store.live /\ hls.instance # 0)
  /\ hls.loop # 0 => (hls.loop = hls.instance /\ hls.loop \in Undestroyed)

C16_LoopRunsWhileLive ==
  [][/\ LoopFollowsLive'
     /\ out'.op = "raf-tick"
          => /\ hls.loop = hls.instance
             /\ hls.loop \in Undestroyed
             /\ store.live
             /\ store'.liveSyncPosition = sampled(out'.arg)
     /\ store'.liveSyncPosition # store.liveSyncPosition => out'.op = "raf-tick"]_vars

C16_Witness ==
  /\ out.op = "hls-error"
  /\ out.calls = <<"destroy">>
  /\ store.live
  /\ store.liveSyncPosition = Fin(MaxTime)
  /\ hls.instance = 0
  /\ hls.loop = 0
  /\ Len(hls.instances) = 1

(***************************************************************************)
(* Fullscreen: enter and exit, as requests and as manager methods, in      *)
(* every combination of what the player, the provider and the screen       *)
(* support, with and without an orientation lock configured.               *)
(***************************************************************************)
InitFullscreen ==
  /\ store = InitStore
  /\ InitRequests
  /\ sel = InitSel(DefaultEnv)
  /\ hls = InitHls
  /\ fs \in {[InitFs EXCEPT !.supported = a, !.provSupported = b,
                            !.orientSupported = c, !.lockType = t] :
               a \in BOOLEAN, b \in BOOLEAN, c \in BOOLEAN,
               t \in {"undefined", "landscape"}}

NextFullscreen ==
  \/ providerChange
  \/ \E via \in {"request", "method"}, target \in FullscreenTargets :
       startEnter(via, target)
  \/ \E via \in {"request", "method"}, target \in FullscreenTargets :
       startExit(via, target)
  \/ \E r \in BagToSet(fs.runs), ok \in BOOLEAN : settle(r, ok)
  \/ listenerDrops("media-enter-fullscreen-request")

SpecFullscreen == InitFullscreen /\ [][NextFullscreen]_vars

(***************************************************************************)
(* Properties of fullscreen.                                               *)
(***************************************************************************)
\* the position of the first occurrence of mark in h, 0 if there is none
Position(h, mark) ==
  IF \E i \in 1..Len(h) : h[i] = mark
    THEN CHOOSE i \in 1..Len(h) : h[i] = mark /\ \A j \in 1..(i - 1) : h[j] # mark
    ELSE 0

\* the histories of the runs in flight and of the run that just ended
RunHistories(op) ==
  {r.hist : r \in {x \in BagToSet(fs.runs) : x.op = op}}
    \cup (IF out.op \in {op, requestName(op)} THEN {out.calls} ELSE {})

\* the runs in flight are where their histories say
RunsOrdered ==
  /\ \A h \in RunHistories("enterFullscreen") :
       /\ (Position(h, "fs.enter()") > 0
             /\ fs.orientSupported /\ fs.lockType # "undefined")
            => /\ Position(h, "orientation.lock()") = 1
               /\ Position(h, "lock:resolved") = 2
               /\ Position(h, "fs.enter()") = 3
       /\ Position(h, "lock:rejected") > 0 => Position(h, "fs.enter()") = 0
  /\ \A h \in RunHistories("exitFullscreen") :
       /\ Position(h, "fs.exit()") > 0
            => \/ /\ Position(h, "orientation.unlock()") = 1
                  /\ Position(h, "unlock:resolved") = 2
                  /\ Position(h, "fs.exit()") = 3
               \/ Position(h, "orientation.unlock()") = 0
       /\ Position(h, "unlock:rejected") > 0 => Position(h, "fs.exit()") = 0

\* the run that took this step has just made the call
JustCalled(o, op, call) ==
  /\ o.op \in {op, requestName(op)}
  /\ o.detail = "pending"
  /\ o.calls # <<>>
  /\ o.calls[Len(o.calls)] = call

FullscreenRequests ==
  {"media-enter-fullscreen-request", "media-exit-fullscreen-request"}

\* the step is a fullscreen request handler starting
RequestStarted(o) == o.op \in FullscreenRequests /\ o.arg.k = "target"

\* the step added a run on this surface to the runs in flight
StartedRunOn(surface) ==
  \E r \in BagToSet(fs'.runs) : r.surface = surface /\ fs'.runs = addRun(fs.runs, r)

\* a request that has ended handed the state manager one fullscreen-error
\* carrying the cause if it failed, and nothing if it did not
OneErrorPerFailure(o) ==
  (o.op \in FullscreenRequests /\ o.detail # "pending")
    => /\ o.raised \in {"none", "fs-unsupported", "rejected"}
       /\ o.events = IF o.raised = "none" THEN <<>>
                                          ELSE <<Event("fullscreen-error", o.raised)>>
       /\ (o.calls # <<>> /\ o.calls[Len(o.calls)] \in
              {"lock:rejected", "unlock:rejected", "enter:rejected", "exit:rejected"})
            => o.raised = "rejected"

\* C19 (as claimed): every enter or exit request uses the player-level
\* fullscreen capability when it is supported and the provider's otherwise,
\* fails as unsupported only when neither is supported, and every failure
\* gives exactly one fullscreen-error event carrying the cause.
C19_PlayerLevelElseProvider ==
  [][/\ RequestStarted(out')
          => /\ (out'.raised = "fs-unsupported") <=> (~fs.supported /\ ~fs.provSupported)
             /\ fs'.runs # fs.runs
                  => StartedRunOn(IF fs.supported THEN "media" ELSE "provider")
     /\ OneErrorPerFailure(out')]_vars

\* C19 (amended): that is so for a request whose target is 'prefer-media' (the
\* default); a request for target 'media' uses the player-level capability
\* only, and one for target 'provider' the provider's only, each failing as
\* unsupported when the capability it names is not supported, whatever the
\* other's support; every failure gives exactly one fullscreen-error event
\* carrying the cause.
C19_SurfacePerTarget ==
  [][/\ RequestStarted(out')
          => LET surface == CASE out'.arg.v = "media" -> "media"
                              [] out'.arg.v = "provider" -> "provider"
                              [] OTHER -> IF fs.supported THEN "media" ELSE "provider"
                 supported == IF surface = "media" THEN fs.supported
                                                   ELSE fs.provSupported
             IN /\ (out'.raised = "fs-unsupported") <=> ~supported
                /\ out'.arg.v = "prefer-media"
                     => ((out'.raised = "fs-unsupported")
                           <=> (~fs.supported /\ ~fs.provSupported))
                /\ fs'.runs # fs.runs => StartedRunOn(surface)
                /\ out'.raised = "fs-unsupported" => fs'.runs = fs.runs
     /\ OneErrorPerFailure(out')]_vars

C19_Witness ==
  /\ out.op = "media-enter-fullscreen-request"
  /\ out.arg = [k |-> "target", v |-> "prefer-media"]
  /\ ~fs.supported
  /\ fs.provSupported
  /\ out.calls = <<"fs.enter()">>
  /\ \E r \in BagToSet(fs.runs) : r.surface = "provider" /\ r.via = "request"

InitFullscreenOrder ==
  /\ store = InitStore
  /\ InitRequests
  /\ sel = InitSel(DefaultEnv)
  /\ hls = InitHls
  /\ fs \in {[InitFs EXCEPT !.supported = a, !.lockType = "landscape",
                            !.history = TRUE] : a \in BOOLEAN}

NextFullscreenOrder ==
  \/ providerChange
  \/ startEnter("request", "prefer-media")
  \/ startExit("request", "prefer-media")
  \/ \E r \in BagToSet(fs.runs), ok \in BOOLEAN : settle(r, ok)
  \/ listenerDrops("media-exit-fullscreen-request")

SpecFullscreenOrder == InitFullscreenOrder /\ [][NextFullscreenOrder]_vars

\* no enter or exit request is suspended at an await
NoRequestInFlight == fs.runs = EmptyBag

FullscreenActive == fs.active \/ fs.provActive

\* C24: whenever no fullscreen request is in flight, the orientation is
\* locked only if fullscreen is active, and fullscreen is not active once an
\* exit request issued later than the last enter request has completed.
C24_LockedOnlyInFullscreen ==
  NoRequestInFlight
    => /\ fs.locked => FullscreenActive
       /\ fs.exited => ~FullscreenActive

\* an exit request was issued after the last enter request and has completed,
\* and the enter request completed after it: fullscreen is active
C24_Witness ==
  /\ NoRequestInFlight
  /\ fs.exited
  /\ FullscreenActive
  /\ out.op = "media-enter-fullscreen-request"
  /\ out.raised = "none"
  /\ out.calls = <<"orientation.lock()", "lock:resolved", "fs.enter()", "enter:resolved">>

\* the lock resolved and fs.enter() was rejected: the orientation stays locked
\* outside fullscreen
LockedAfterRejectedEnter ==
  /\ NoRequestInFlight
  /\ out.op = "media-enter-fullscreen-request"
  /\ out.raised = "rejected"
  /\ out.calls = <<"orientation.lock()", "lock:resolved", "fs.enter()", "enter:rejected">>
  /\ fs.locked
  /\ ~FullscreenActive

====
